---- MODULE Spec2Model ----
(***************************************************************************)
(* Model of krun-nitro-eif-ctl, src/src/main.rs: the `build` subcommand.    *)
(*                                                                          *)
(* build() runs build_info, reads the cmdline, builds the initrd (a newc    *)
(* CPIO archive: init, the krun_linux_mods directory, one entry per module  *)
(* of the JSON manifest, the trailer) and hands it to EifBuilder, which     *)
(* serializes the EIF image into the output path.                           *)
(*                                                                          *)
(* Representation.                                                          *)
(*  - A path is the sequence of its '/'-separated segments, i.e. the value  *)
(*    of path.split('/'): "" is <<"">>, "/" is <<"","">>, "boot/" is        *)
(*    <<"boot","">>, "a/x.ko" is <<"a","x.ko">>.                            *)
(*  - Option<T> is a sequence: <<>> is None, <<x>> is Some(x).              *)
(*  - A file is the sequence of the records written to it, with a cursor.   *)
(*    An archive entry is one record (header, name, payload and padding     *)
(*    together); `full` is FALSE for an entry whose write was cut short.    *)
(*    `run` is a history tag: the invocation that wrote the record.         *)
(*  - An entry name "krun_linux_mods/<f>" is <<"krun_linux_mods", f>>: a    *)
(*    file name holds no '/', so the two segments determine the string.     *)
(*  - args.initrd and args.path name two different files (the defaults of   *)
(*    lines 180 and 183); args.init is a fixed path.  args.arch only        *)
(*    selects the flag word handed to the image-format crate (lines         *)
(*    193-196), which nothing else reads; it is left out.                   *)
(*  - EifBuilder (aws-nitro-enclaves-image-format) is outside src/: new     *)
(*    returns the builder itself and write_to returns the measurements,     *)
(*    neither a Result, so a failure inside them can only unwind (panic)    *)
(*    out of build; the model gives each call the outcomes ok and panic.    *)
(***************************************************************************)
EXTENDS Integers, Sequences, FiniteSets, TLC

VARIABLES
    run,          \* number of the current invocation of the tool
    prevResult,   \* how the previous invocation ended ("none" for the first)
    pc,           \* position of the invocation in build / Initrd::build
    kernel,       \* args.kernel
    img_kernel,   \* build_info: kernel_name, an Option
    modules,      \* Initrd.modules, the deserialized manifest
    idx,          \* position of the `for entry in self.modules.iter()` loop
    contentsLen,  \* write_file: contents.len() of the last fs::read, or NoContents
    initrd,       \* content of the file at args.initrd
    initrdPos,    \* cursor of the open initrd handle
    initrdOpen,   \* Initrd::build's `file` handle is open
    initrdRes,    \* return value of Initrd::build ("none" before it returns)
    eif,          \* content of the file at args.path
    eifOpen,      \* build's `output` handle is open
    assembler,    \* EifBuilder calls made by this invocation
    touched,      \* output files this invocation created/truncated
    result        \* outcome of the invocation

vars == <<run, prevResult, pc, kernel, img_kernel, modules, idx, contentsLen,
          initrd, initrdPos, initrdOpen, initrdRes, eif, eifOpen, assembler,
          touched, result>>

-----------------------------------------------------------------------------
(* Bounds *)

MaxModules == 2
MaxRuns == 2

(* Program constants *)

\* A usize is the sequence of its four 16-bit limbs, most significant first,
\* a u32 the sequence of its two: TLC's integers are 32-bit signed, too
\* narrow for 2^32.
LimbMax == 2 ^ 16 - 1

FileMode == 33261
DirMode == 16877
DevMajor == 3
DevMinor == 1

-----------------------------------------------------------------------------
(* Inputs *)

\* "boot/vmlinuz" and "boot/"
KernelPaths == { <<"boot", "vmlinuz">>, <<"boot", "">> }

args_init == <<"", "etc", "krun-awsnitro", "init">>

\* "a/x.ko", "b/x.ko", "sbin/init" and the root path "/"
ModulePaths ==
    { <<"a", "x.ko">>, <<"b", "x.ko">>, <<"sbin", "init">>, <<"", "">> }

RECURSIVE SeqsUpTo(_, _)
SeqsUpTo(S, n) ==
    IF n = 0 THEN { <<>> }
    ELSE LET shorter == SeqsUpTo(S, n - 1)
         IN  shorter \cup { Append(s, x) : s \in { t \in shorter : Len(t) = n - 1 }, x \in S }

Manifests == SeqsUpTo(ModulePaths, MaxModules)

\* contents.len() values a read can yield: 2^32 - 1 and 2^32
ReadLens == { << 0, 0, LimbMax, LimbMax >>, << 0, 1, 0, 0 >> }

NoContents == <<>>

-----------------------------------------------------------------------------
(* Pure helpers *)

Last(s) == s[Len(s)]

\* Vec::pop
Pop(sub) == IF sub = <<>> THEN <<>> ELSE << Last(sub) >>

\* build_info: the kernel name is the last element of path.split('/')
KernelName(path) == Pop(path)

\* Path::file_name: the last component if it is a normal one.  Empty
\* segments (repeated or trailing separators, the root) and "." are no
\* components; a path ending in ".." has no file name.
file_name(path) ==
    LET comps == SelectSeq(path, LAMBDA s : s # "" /\ s # ".")
    IN  IF comps = <<>> \/ Last(comps) = ".." THEN <<>> ELSE << Last(comps) >>

\* the length exceeds 2^32 - 1
ExceedsU32(n) == n[1] # 0 \/ n[2] # 0

TryIntoU32_truncating(n) == << << n[3], n[4] >> >>

\* usize -> u32 via try_into: Some(value) iff the upper 32 bits are zero
TryIntoU32(n) == IF n[1] = 0 /\ n[2] = 0 THEN << << n[3], n[4] >> >> ELSE <<>>

OpenKeep(content) == content

\* OpenOptions ... .create(true).truncate(true).open(..): the content after
\* a successful open
OpenTruncate(content) == <<>>

\* a write of one record at the cursor
WriteAt(content, pos, rec) ==
    SubSeq(content, 1, pos) \o << rec >> \o SubSeq(content, pos + 2, Len(content))

FileEntry(name, path, len, r, whole) ==
    [ name |-> name, kind |-> "file", mode |-> FileMode,
      dev |-> << DevMajor, DevMinor >>, size |-> len, src |-> path,
      run |-> r, full |-> whole ]

ModsDir_asFile(r, whole) ==
    [ name |-> << "krun_linux_mods" >>, kind |-> "file", mode |-> FileMode,
      dev |-> << 0, 0 >>, size |-> << 0, 0 >>, src |-> <<>>, run |-> r, full |-> whole ]

\* NewcBuilder::new("krun_linux_mods").mode(0o40755)...write(&mut file, 0)
ModsDir(r, whole) ==
    [ name |-> << "krun_linux_mods" >>, kind |-> "dir", mode |-> DirMode,
      dev |-> << 0, 0 >>, size |-> << 0, 0 >>, src |-> <<>>, run |-> r, full |-> whole ]

\* cpio::newc::trailer
Trailer(r, whole) ==
    [ name |-> << "TRAILER!!!" >>, kind |-> "trailer", mode |-> 0,
      dev |-> << 0, 0 >>, size |-> << 0, 0 >>, src |-> <<>>, run |-> r, full |-> whole ]

ModuleEntryName_flat(fname) == << fname >>

\* format!("krun_linux_mods/{}", file_name)
ModuleEntryName(fname) == << "krun_linux_mods", fname >>

ModuleAt_reversed(mods, k) == mods[Len(mods) + 1 - k]

\* the k-th item of self.modules.iter()
ModuleAt(mods, k) == mods[k]

CopyResult_swallowed(ioOk) == "Ok"

\* io::copy(..)? then writer.finish()?
CopyResult(ioOk) == IF ioOk THEN "Ok" ELSE "ErrCopy"

InitrdBuildNext_ignored(res) == "eif_new"

\* initrd.build().context("unable to build initrd")?
InitrdBuildNext(res) == IF res = "Ok" THEN "eif_new" ELSE "done"

\* the image written by EifBuilder::write_to
Image(r, name, whole) == [ run |-> r, img_kernel |-> name, full |-> whole ]

Panics == { "PanicKernel", "PanicRamdisk", "PanicWrite" }

\* the invocation ended with build returning Err
IsErr(r) == r \notin { "running", "Ok", "killed" } \cup Panics

-----------------------------------------------------------------------------
(* State after construction: the tool has been started with its arguments   *)
(* parsed; both output paths are empty/absent.                              *)

Init ==
    /\ run = 1
    /\ prevResult = "none"
    /\ pc = "build_info"
    /\ kernel \in KernelPaths
    /\ img_kernel = <<>>
    /\ modules = <<>>
    /\ idx = 1
    /\ contentsLen = NoContents
    /\ initrd = <<>>
    /\ initrdPos = 0
    /\ initrdOpen = FALSE
    /\ initrdRes = "none"
    /\ eif = <<>>
    /\ eifOpen = FALSE
    /\ assembler = {}
    /\ touched = {}
    /\ result = "running"

-----------------------------------------------------------------------------
(* build, lines 187-199 *)

\* let build_info = build_info(&args)?;
build_info ==
    /\ pc = "build_info"
    /\ LET kernel_name == KernelName(kernel)
       IN  IF kernel_name = <<>>
           THEN /\ result' = "ErrKernelName"
                /\ pc' = "done"
                /\ UNCHANGED img_kernel
           ELSE /\ img_kernel' = kernel_name
                /\ pc' = "cmdline"
                /\ UNCHANGED result
    /\ UNCHANGED <<run, prevResult, kernel, modules, idx, contentsLen, initrd,
                   initrdPos, initrdOpen, initrdRes, eif, eifOpen, assembler,
                   touched>>

\* let cmdline = fs::read_to_string(&args.cmdline).with_context(..)?;
read_cmdline ==
    /\ pc = "cmdline"
    /\ \E readOk \in BOOLEAN :
          IF readOk
          THEN pc' = "try_from" /\ UNCHANGED result
          ELSE pc' = "done" /\ result' = "ErrCmdline"
    /\ UNCHANGED <<run, prevResult, kernel, img_kernel, modules, idx,
                   contentsLen, initrd, initrdPos, initrdOpen, initrdRes, eif,
                   eifOpen, assembler, touched>>

\* let mut initrd = Initrd::try_from(&args).context("unable to build initrd")?;
\* the manifest is unreadable, or is no JSON array of strings, or yields the
\* list of module paths
Initrd_try_from ==
    /\ pc = "try_from"
    /\ \/ \E e \in { "ErrManifestRead", "ErrManifestParse" } :
             /\ result' = e
             /\ pc' = "done"
             /\ UNCHANGED modules
       \/ \E m \in Manifests :
             /\ modules' = m
             /\ pc' = "initrd_open"
             /\ UNCHANGED result
    /\ UNCHANGED <<run, prevResult, kernel, img_kernel, idx, contentsLen,
                   initrd, initrdPos, initrdOpen, initrdRes, eif, eifOpen,
                   assembler, touched>>

-----------------------------------------------------------------------------
(* Initrd::build, lines 95-130.  Every return drops `file`, which closes   *)
(* the handle.                                                              *)

\* OpenOptions::new()...truncate(true).open(self.path.clone()).context(..)?
Initrd_build_open ==
    /\ pc = "initrd_open"
    /\ \E openOk \in BOOLEAN :
          IF openOk
          THEN /\ initrd' = OpenTruncate(initrd)
               /\ initrdPos' = 0
               /\ initrdOpen' = TRUE
               /\ touched' = touched \cup { "initrd" }
               /\ pc' = "write_init"
               /\ UNCHANGED initrdRes
          ELSE /\ initrdRes' = "ErrInitrdOpen"
               /\ pc' = "initrd_ret"
               /\ UNCHANGED <<initrd, initrdPos, initrdOpen, touched>>
    /\ UNCHANGED <<run, prevResult, kernel, img_kernel, modules, idx,
                   contentsLen, eif, eifOpen, assembler, result>>

\* Initrd::write_file(name, path, file), lines 132-158, followed by the
\* caller's `?`; on Ok the caller goes on at okPc with loop position okIdx.
\* A failed copy/finish may have put any part of the entry into the file:
\* the entry is there with full = FALSE.
write_file(name, path, okPc, okIdx) ==
    \/ \* fs::read(path) fails
       /\ contentsLen' = NoContents
       /\ initrdRes' = "ErrRead"
       /\ initrdOpen' = FALSE
       /\ pc' = "initrd_ret"
       /\ UNCHANGED <<initrd, initrdPos, idx>>
    \/ \E len \in ReadLens :
          /\ contentsLen' = len
          /\ IF TryIntoU32(len) = <<>>
             THEN /\ initrdRes' = "ErrU32"
                  /\ initrdOpen' = FALSE
                  /\ pc' = "initrd_ret"
                  /\ UNCHANGED <<initrd, initrdPos, idx>>
             ELSE \E ioOk \in BOOLEAN :
                     /\ initrd' = WriteAt(initrd, initrdPos,
                                          FileEntry(name, path, TryIntoU32(len)[1],
                                                    run, ioOk))
                     /\ initrdPos' = initrdPos + 1
                     /\ IF CopyResult(ioOk) = "Ok"
                        THEN /\ pc' = okPc
                             /\ idx' = okIdx
                             /\ UNCHANGED <<initrdRes, initrdOpen>>
                        ELSE /\ initrdRes' = CopyResult(ioOk)
                             /\ initrdOpen' = FALSE
                             /\ pc' = "initrd_ret"
                             /\ UNCHANGED idx

\* self.write_file("init", &self.init.clone(), &mut file)?;
write_file_init ==
    /\ pc = "write_init"
    /\ write_file(<< "init" >>, args_init, "mods_dir", 1)
    /\ UNCHANGED <<run, prevResult, kernel, img_kernel, modules, eif, eifOpen,
                   assembler, touched, result>>

\* mods_dir.write(&mut file, 0); writer.finish().context(..)?;
mods_dir_write ==
    /\ pc = "mods_dir"
    /\ \E ioOk \in BOOLEAN :
          /\ initrd' = WriteAt(initrd, initrdPos, ModsDir(run, ioOk))
          /\ initrdPos' = initrdPos + 1
          /\ IF ioOk
             THEN /\ pc' = "modules"
                  /\ UNCHANGED <<initrdRes, initrdOpen>>
             ELSE /\ initrdRes' = "ErrModsDir"
                  /\ initrdOpen' = FALSE
                  /\ pc' = "initrd_ret"
    /\ UNCHANGED <<run, prevResult, kernel, img_kernel, modules, idx,
                   contentsLen, eif, eifOpen, assembler, touched, result>>

\* one iteration of `for entry in self.modules.iter()`, lines 114-125.
\* entry.file_name() decides; to_str() cannot fail, the path having been
\* deserialized from a JSON (UTF-8) string.
write_file_module ==
    /\ pc = "modules"
    /\ idx <= Len(modules)
    /\ LET entry == ModuleAt(modules, idx)
           file_osstr == file_name(entry)
       IN  IF file_osstr = <<>>
           THEN /\ initrdRes' = "ErrFileName"
                /\ initrdOpen' = FALSE
                /\ pc' = "initrd_ret"
                /\ contentsLen' = NoContents
                /\ UNCHANGED <<initrd, initrdPos, idx>>
           ELSE write_file(ModuleEntryName(file_osstr[1]), entry, "modules", idx + 1)
    /\ UNCHANGED <<run, prevResult, kernel, img_kernel, modules, eif, eifOpen,
                   assembler, touched, result>>

\* the loop is over: let _ = trailer(&file).context(..)?; Ok(())
trailer_write ==
    /\ pc = "modules"
    /\ idx > Len(modules)
    /\ \E ioOk \in BOOLEAN :
          /\ initrd' = WriteAt(initrd, initrdPos, Trailer(run, ioOk))
          /\ initrdPos' = initrdPos + 1
          /\ initrdRes' = IF ioOk THEN "Ok" ELSE "ErrTrailer"
    /\ initrdOpen' = FALSE
    /\ pc' = "initrd_ret"
    /\ UNCHANGED <<run, prevResult, kernel, img_kernel, modules, idx,
                   contentsLen, eif, eifOpen, assembler, touched, result>>

-----------------------------------------------------------------------------
(* build, lines 199-223 *)

\* initrd.build().context("unable to build initrd")?;
initrd_build_return ==
    /\ pc = "initrd_ret"
    /\ pc' = InitrdBuildNext(initrdRes)
    /\ result' = IF initrdRes = "Ok" THEN result ELSE initrdRes
    /\ UNCHANGED <<run, prevResult, kernel, img_kernel, modules, idx,
                   contentsLen, initrd, initrdPos, initrdOpen, initrdRes, eif,
                   eifOpen, assembler, touched>>

\* let mut build = EifBuilder::new(&args.kernel, cmdline, None, ..);
\* the builder opens the kernel
EifBuilder_new ==
    /\ pc = "eif_new"
    /\ assembler' = assembler \cup { "new" }
    /\ \E kernelOk \in BOOLEAN :
          IF kernelOk
          THEN pc' = "add_ramdisk" /\ UNCHANGED result
          ELSE pc' = "done" /\ result' = "PanicKernel"
    /\ UNCHANGED <<run, prevResult, kernel, img_kernel, modules, idx,
                   contentsLen, initrd, initrdPos, initrdOpen, initrdRes, eif,
                   eifOpen, touched>>

\* build.add_ramdisk(Path::new(&args.initrd));
add_ramdisk ==
    /\ pc = "add_ramdisk"
    /\ assembler' = assembler \cup { "add_ramdisk" }
    /\ \E ramdiskOk \in BOOLEAN :
          IF ramdiskOk
          THEN pc' = "output_open" /\ UNCHANGED result
          ELSE pc' = "done" /\ result' = "PanicRamdisk"
    /\ UNCHANGED <<run, prevResult, kernel, img_kernel, modules, idx,
                   contentsLen, initrd, initrdPos, initrdOpen, initrdRes, eif,
                   eifOpen, touched>>

\* OpenOptions::new()...truncate(true).open(args.path)
\*     .context("failed to create output file")?;
output_open ==
    /\ pc = "output_open"
    /\ \E openOk \in BOOLEAN :
          IF openOk
          THEN /\ eif' = OpenTruncate(eif)
               /\ eifOpen' = TRUE
               /\ touched' = touched \cup { "eif" }
               /\ pc' = "write_to"
               /\ UNCHANGED result
          ELSE /\ result' = "ErrOutputOpen"
               /\ pc' = "done"
               /\ UNCHANGED <<eif, eifOpen, touched>>
    /\ UNCHANGED <<run, prevResult, kernel, img_kernel, modules, idx,
                   contentsLen, initrd, initrdPos, initrdOpen, initrdRes,
                   assembler>>

\* build.write_to(&mut output); Ok(())
\* leaving build, normally or unwinding, drops `output`
write_to ==
    /\ pc = "write_to"
    /\ assembler' = assembler \cup { "write_to" }
    /\ \E writeOk \in BOOLEAN :
          /\ eif' = WriteAt(eif, 0, Image(run, img_kernel, writeOk))
          /\ result' = IF writeOk THEN "Ok" ELSE "PanicWrite"
    /\ eifOpen' = FALSE
    /\ pc' = "done"
    /\ UNCHANGED <<run, prevResult, kernel, img_kernel, modules, idx,
                   contentsLen, initrd, initrdPos, initrdOpen, initrdRes,
                   touched>>

-----------------------------------------------------------------------------
(* The environment of an invocation *)

\* the process is terminated at any point; a write in progress on an open
\* output is cut short
kill ==
    /\ pc # "done"
    /\ \E midWrite \in BOOLEAN :
          /\ initrd' = IF midWrite /\ initrdOpen
                       THEN WriteAt(initrd, initrdPos,
                                    FileEntry(<<>>, <<>>, << 0, 0 >>, run, FALSE))
                       ELSE initrd
          /\ eif' = IF midWrite /\ eifOpen
                    THEN WriteAt(eif, 0, Image(run, img_kernel, FALSE))
                    ELSE eif
    /\ initrdOpen' = FALSE
    /\ eifOpen' = FALSE
    /\ result' = "killed"
    /\ pc' = "done"
    /\ UNCHANGED <<run, prevResult, kernel, img_kernel, modules, idx,
                   contentsLen, initrdPos, initrdRes, assembler, touched>>

\* the tool is invoked again on the same output paths: main, lines 19-24
next_run ==
    /\ pc = "done"
    /\ run < MaxRuns
    /\ run' = run + 1
    /\ prevResult' = result
    /\ kernel' \in KernelPaths
    /\ pc' = "build_info"
    /\ img_kernel' = <<>>
    /\ modules' = <<>>
    /\ idx' = 1
    /\ contentsLen' = NoContents
    /\ initrdPos' = 0
    /\ initrdRes' = "none"
    /\ assembler' = {}
    /\ touched' = {}
    /\ result' = "running"
    /\ UNCHANGED <<initrd, initrdOpen, eif, eifOpen>>

-----------------------------------------------------------------------------

\* one invocation of `build`
Next ==
    \/ build_info
    \/ read_cmdline
    \/ Initrd_try_from
    \/ Initrd_build_open
    \/ write_file_init
    \/ mods_dir_write
    \/ write_file_module
    \/ trailer_write
    \/ initrd_build_return
    \/ EifBuilder_new
    \/ add_ramdisk
    \/ output_open
    \/ write_to

Spec == Init /\ [][Next]_vars

\* successive invocations on the same output paths, any of which may be
\* terminated
NextRuns ==
    \/ Next
    \/ kill
    \/ next_run

SpecRuns == Init /\ [][NextRuns]_vars

-----------------------------------------------------------------------------
(* Properties *)

Names(f) == [ k \in DOMAIN f |-> f[k].name ]

PairwiseDistinct(q) == \A j, k \in DOMAIN q : j # k => q[j] # q[k]

\* the initrd file holds a whole archive written by this invocation: every
\* entry complete, the trailer last, nothing behind the cursor
InitrdComplete ==
    /\ initrd # <<>>
    /\ \A k \in DOMAIN initrd : initrd[k].full /\ initrd[k].run = run
    /\ Last(initrd).kind = "trailer"
    /\ initrdPos = Len(initrd)

\* the EIF file holds the whole image serialized by this invocation
EifComplete ==
    /\ "eif" \in touched
    /\ eif = << Image(run, img_kernel, TRUE) >>

\* C1: the assembler (EifBuilder::new, add_ramdisk, write_to) is invoked,
\* and the EIF path opened, only after Initrd::build has returned Ok, with
\* the trailer written and the initrd handle closed; when Initrd::try_from
\* or Initrd::build fails, the assembler is never invoked and the EIF path
\* is never opened.
C1_AssemblerOnlyAfterInitrd ==
    /\ (assembler # {} \/ "eif" \in touched)
          => (initrdRes = "Ok" /\ ~initrdOpen /\ InitrdComplete)
    /\ (result \in { "ErrManifestRead", "ErrManifestParse" }
          \/ initrdRes \notin { "none", "Ok" })
          => (assembler = {} /\ "eif" \notin touched /\ ~eifOpen)

C1_Witness == "add_ramdisk" \in assembler /\ initrdRes = "Ok"

\* C2: when a required input is missing or unreadable (kernel, cmdline,
\* init binary, manifest, a module file) or the manifest does not parse, the
\* run aborts before any output file has been created, truncated or written.
C2_InputErrorTouchesNoOutput ==
    (result \in { "ErrCmdline", "ErrManifestRead", "ErrManifestParse",
                  "ErrRead", "PanicKernel" })
       => (touched = {} /\ \A k \in DOMAIN initrd : initrd[k].run # run)

\* C3: a run that returns success has written both outputs fully: the initrd
\* holds a complete archive ending in the trailer and the EIF file holds the
\* completely serialized image, both of this run.  (Contrapositive: a run
\* whose archive or image is absent, truncated or stale, as after a failure
\* of the output open or of write_to, does not return success.)
C3_SuccessWritesBothOutputs ==
    result = "Ok" => (InitrdComplete /\ EifComplete /\ initrdRes = "Ok")

C3_Witness == result = "Ok" /\ Len(modules) > 0

\* C4: in the archive of a successful Initrd::build, init comes first, the
\* module entries follow in manifest order, and the trailer is written
\* exactly once, as the last entry, with nothing written after it.
C4_EntryOrder ==
    initrdRes = "Ok" =>
       LET files == SelectSeq(initrd, LAMBDA e : e.kind = "file")
       IN  /\ initrd[1].name = << "init" >>
           /\ initrd[1].src = args_init
           /\ Len(files) = Len(modules) + 1
           /\ \A k \in DOMAIN modules : files[k + 1].src = modules[k]
           /\ Cardinality({ k \in DOMAIN initrd : initrd[k].kind = "trailer" }) = 1
           /\ Last(initrd).kind = "trailer"
           /\ initrdPos = Len(initrd)

C4_Witness == initrdRes = "Ok" /\ Len(modules) = 2 /\ modules[1] # modules[2]

\* C5 (as stated): with zero modules a successful build leaves exactly two
\* entries in the initrd, init and the trailer.
C5_TwoEntries ==
    (result = "Ok" /\ modules = <<>>)
       => Names(initrd) = << << "init" >>, << "TRAILER!!!" >> >>

\* C5 (amended): with zero modules a successful build leaves exactly three
\* entries in the initrd: the file init, the directory krun_linux_mods and
\* the trailer.
C5_ThreeEntries ==
    (result = "Ok" /\ modules = <<>>)
       => [ k \in DOMAIN initrd |-> << initrd[k].name, initrd[k].kind >> ]
             = << << << "init" >>, "file" >>,
                  << << "krun_linux_mods" >>, "dir" >>,
                  << << "TRAILER!!!" >>, "trailer" >> >>

C5_Witness == result = "Ok" /\ modules = <<>>

\* C6: a kernel path without a file-name component (empty, or ending in
\* '/') makes build_info fail, and the run ends with an error before the
\* initrd or the EIF image is opened or written.
C6_NoKernelNameFails ==
    (Last(kernel) = "" /\ pc # "build_info")
       => (pc = "done" /\ IsErr(result) /\ touched = {})

\* C7: a module path without a final component fails the build before any
\* byte is written to the initrd: at the failure the initrd holds nothing
\* written by this run.
C7_FileNameFailsBeforeWrite ==
    initrdRes = "ErrFileName"
       => \A k \in DOMAIN initrd : initrd[k].run # run

\* C8: a write_file whose payload length exceeds 2^32 - 1 fails with the
\* size-conversion error and writes nothing of the entry, and nothing is
\* written to the archive afterwards; the earlier entries stay as they were.
C8_OverflowWritesNothing ==
    [][ /\ (pc \in { "write_init", "modules" }
              /\ contentsLen' # NoContents /\ ExceedsU32(contentsLen'))
           => (initrdRes' = "ErrU32" /\ initrd' = initrd)
        /\ initrdRes = "ErrU32" => initrd' = initrd ]_vars

C8_Witness == initrdRes = "ErrU32" /\ pc = "done" /\ Len(initrd) >= 2

\* C9: after any sequence of earlier runs on the same output paths, failed
\* or terminated at any point, a run that succeeds leaves in each output
\* file only what it wrote itself: nothing of a previous run survives.
C9_SuccessLeavesOnlyOwnContent ==
    result = "Ok" =>
       /\ \A k \in DOMAIN initrd : initrd[k].run = run
       /\ \A k \in DOMAIN eif : eif[k].run = run
       /\ Len(initrd) = initrdPos
       /\ Len(eif) = 1

C9_Witness ==
    result = "Ok" /\ run > 1 /\ prevResult \notin { "Ok", "none" }

\* C10 (as stated): in the archive of a successful build the entry names are
\* pairwise distinct for every manifest of pairwise distinct module paths.
C10_DistinctPathsDistinctNames ==
    (initrdRes = "Ok" /\ PairwiseDistinct(modules))
       => PairwiseDistinct(Names(initrd))

\* C10 (amended): in the archive of a successful build the entry names are
\* pairwise distinct for every manifest whose module paths have pairwise
\* distinct file names (final components).
C10_DistinctFileNamesDistinctNames ==
    (initrdRes = "Ok"
       /\ PairwiseDistinct([ k \in DOMAIN modules |-> file_name(modules[k]) ]))
       => PairwiseDistinct(Names(initrd))

C10_Witness ==
    /\ initrdRes = "Ok"
    /\ Len(modules) = 2
    /\ file_name(modules[1]) # file_name(modules[2])

====
